---- MODULE Spec2Model ----
(***************************************************************************)
(* Model of the schedule orchestrator of news-forecast-tgbot               *)
(* (scheduler_service.execute_schedule) together with the store operations *)
(* (database.py) and the validation registries (registries.py) it uses.    *)
(*                                                                         *)
(* Every execution of execute_schedule is a task of the asyncio loop.  A   *)
(* task is suspended only at an await (a send, the acquisition call, a     *)
(* sleep); the actions below are the pieces between two awaits, except     *)
(* that the completion check (should_run_schedule) and the atomic creation *)
(* (start_run_record) are two separate steps, so that executions sharing   *)
(* the store from different processes are covered as well.                 *)
(*                                                                         *)
(* The store is SQLite: each operation is one transaction and succeeds,    *)
(* except for the IntegrityError of the UNIQUE constraint, which is        *)
(* modelled.                                                               *)
(***************************************************************************)
EXTENDS Integers, Sequences, FiniteSets, TLC

\* ------------------------------------------------------------------ bounds
MaxDate == 2      \* UTC dates 1..MaxDate
NumMsgs == 2      \* a formatted report has 1..NumMsgs messages
MaxResults == 2   \* a report under is_final_report has 0..MaxResults results
MaxBlocks == 2    \* a rendered page has 0..MaxBlocks <pre> blocks

\* --------------------------------------------------------------- universes
Execs == {1, 2}                \* the executions of execute_schedule of one behaviour
Chats == {1, 2}                \* chat ids that may subscribe
ADMIN_IDS == <<2>>             \* config.ADMIN_IDS
None == 0                      \* Python None for ids
NoText == <<"NULL", "">>       \* SQL NULL / no validation error

\* ---------------------------------------------------- registries.py
COUNTRY_REGISTRY ==
  {"al", "ad", "at", "by", "be", "ba", "bg", "hr", "cy", "cz", "dk", "ee",
   "fi", "fr", "de", "gr", "hu", "is", "ie", "it", "xk", "lv", "li", "lt",
   "lu", "mt", "md", "mc", "me", "nl", "mk", "no", "pl", "pt", "ro", "ru",
   "sm", "rs", "sk", "si", "es", "se", "ch", "tr", "ua", "uk", "gb"}

SUPPORTED_LANGUAGES == {"en", "pt", "es", "fr", "de", "it", "ru", "pl", "uk"}

\* str.strip() on the tokens that occur in the schedules of the model
Strip(s) ==
  CASE s = " fr" -> "fr"
    [] s = "zz " -> "zz"
    [] OTHER -> s

\* str.lower() on the tokens that occur in the model
Lower(s) ==
  CASE s = "GB" -> "gb"
    [] s = "EN" -> "en"
    [] s = "UK" -> "uk"
    [] s = "Loading analysis" -> "loading analysis"
    [] s = "LOADING ANALYSIS" -> "loading analysis"
    [] s = "API key not valid" -> "api key not valid"
    [] s = "API_KEY_INVALID" -> "api_key_invalid"
    [] OTHER -> s

\* str.upper() on the tokens that occur in the model
Upper(s) ==
  CASE s = "permission_denied" -> "PERMISSION_DENIED"
    [] s = "api_key_invalid" -> "API_KEY_INVALID"
    [] OTHER -> s

normalize_country_code_dropalias(code) ==
  LET c == Strip(Lower(code))
  IN IF c \notin COUNTRY_REGISTRY THEN "" ELSE c

\* returns "" for None
normalize_country_code(code) ==
  LET c == Strip(Lower(code))
  IN IF c \notin COUNTRY_REGISTRY THEN ""
     ELSE IF c = "gb" THEN "uk"
     ELSE c

validate_language(lang) == Strip(Lower(lang)) \in SUPPORTED_LANGUAGES

\* ---------------------------------------------------- forecast_schedules
\* Rows of forecast_schedules; the id is the position.  countries is the
\* stored text split at ',' (the tokens still carry their blanks and case).
forecast_schedules ==
  << [id |-> 1, time_utc |-> "08:00", countries |-> <<"GB", " fr">>, language |-> "EN"],
     [id |-> 2, time_utc |-> "08:00", countries |-> <<"uk", "zz ", "de">>, language |-> "en"],
     [id |-> 3, time_utc |-> "09:30", countries |-> <<"uk">>, language |-> "xx"] >>

ScheduleIds == 1..Len(forecast_schedules)
RequestIds == 1..(Len(forecast_schedules) + 1)   \* the last one is not stored

VARIABLES
  today,          \* the current UTC date
  subscribers,    \* rows of table subscribers, in rowid order
  schedule_runs,  \* rows of table schedule_runs, the id is the position
  task,           \* locals and position of each execution of execute_schedule
  hist,           \* what each execution has observed and done so far
  reply,          \* what the last add_subscriber call found and returned
  fe,             \* locals and position of one call of fetch_forecast
  pg              \* one rendered page and what inspect_page made of it

vars == <<today, subscribers, schedule_runs, task, hist, reply, fe, pg>>

\* ---------------------------------------------------- database.py
get_all_schedules == forecast_schedules

SubRow(chat_id) == {n \in 1..Len(subscribers) : subscribers[n].chat_id = chat_id}

add_subscriber(subs, chat_id) ==
  LET rows == {n \in 1..Len(subs) : subs[n].chat_id = chat_id}
  IN IF rows # {}
     THEN [n \in 1..Len(subs) |->
             IF n \in rows THEN [subs[n] EXCEPT !.active = 1] ELSE subs[n]]
     ELSE Append(subs, [chat_id |-> chat_id, active |-> 1])

\* the value add_subscriber returns (lines 77, 78 and 84)
add_subscriber_returns(subs, chat_id) ==
  LET rows == {n \in 1..Len(subs) : subs[n].chat_id = chat_id}
  IN IF rows # {}
     THEN \A n \in rows : subs[n].active = 0
     ELSE TRUE

\* an unsubscription that deletes the row
unsubscribe_user_delete(subs, chat_id) ==
  SelectSeq(subs, LAMBDA r : r.chat_id # chat_id)

\* an UPDATE without its WHERE
unsubscribe_user_everyone(subs, chat_id) ==
  [n \in 1..Len(subs) |-> [subs[n] EXCEPT !.active = 0]]

\* UPDATE subscribers SET active = 0 WHERE chat_id = ?
unsubscribe_user(subs, chat_id) ==
  [n \in 1..Len(subs) |->
     IF subs[n].chat_id = chat_id THEN [subs[n] EXCEPT !.active = 0] ELSE subs[n]]

\* UPDATE subscribers SET active = 0 WHERE id = ?  (the id is the position)
deactivate_subscriber_by_id(subs, sub_id) ==
  [n \in 1..Len(subs) |->
     IF n = sub_id THEN [subs[n] EXCEPT !.active = 0] ELSE subs[n]]

get_active_subscribers_chat_ids(subs) ==
  LET act == SelectSeq(subs, LAMBDA r : r.active = 1)
  IN [n \in 1..Len(act) |-> act[n].chat_id]

RunRows(runs, schedule_id, date_utc, time_utc) ==
  {n \in 1..Len(runs) : /\ runs[n].schedule_id = schedule_id
                        /\ runs[n].run_date_utc = date_utc
                        /\ runs[n].run_time_utc = time_utc}

should_run_schedule(runs, schedule_id, date_utc, time_utc) ==
  LET rows == RunRows(runs, schedule_id, date_utc, time_utc)
  IN ~ \E n \in rows : runs[n].status \in {"success", "partial"}

\* status of the row of a slot, "" when there is none
SlotStatus(runs, schedule_id, date_utc, time_utc) ==
  LET rows == RunRows(runs, schedule_id, date_utc, time_utc)
  IN IF rows = {} THEN "" ELSE runs[CHOOSE n \in rows : TRUE].status

NewRun(schedule_id, date_utc, time_utc) ==
  [schedule_id |-> schedule_id, run_date_utc |-> date_utc,
   run_time_utc |-> time_utc, status |-> "running", error_text |-> NoText]

\* a creation that forgets the UNIQUE constraint
start_run_record_nounique(runs, schedule_id, date_utc, time_utc) ==
  [id |-> Len(runs) + 1,
   runs |-> Append(runs, NewRun(schedule_id, date_utc, time_utc))]

\* a creation that takes over a row left in 'error'
start_run_record_reclaim(runs, schedule_id, date_utc, time_utc) ==
  LET rows == RunRows(runs, schedule_id, date_utc, time_utc)
  IN IF rows = {}
     THEN [id |-> Len(runs) + 1,
           runs |-> Append(runs, NewRun(schedule_id, date_utc, time_utc))]
     ELSE LET n == CHOOSE x \in rows : TRUE
          IN IF runs[n].status = "error"
             THEN [id |-> n,
                   runs |-> [runs EXCEPT ![n] = NewRun(schedule_id, date_utc, time_utc)]]
             ELSE [id |-> None, runs |-> runs]

\* a creation that takes over a row left in 'running'
start_run_record_stale(runs, schedule_id, date_utc, time_utc) ==
  LET rows == RunRows(runs, schedule_id, date_utc, time_utc)
  IN IF rows = {}
     THEN [id |-> Len(runs) + 1,
           runs |-> Append(runs, NewRun(schedule_id, date_utc, time_utc))]
     ELSE LET n == CHOOSE x \in rows : TRUE
          IN IF runs[n].status = "running"
             THEN [id |-> n, runs |-> runs]
             ELSE [id |-> None, runs |-> runs]

\* INSERT under UNIQUE(schedule_id, run_date_utc, run_time_utc);
\* id = None when the IntegrityError is caught
start_run_record(runs, schedule_id, date_utc, time_utc) ==
  IF RunRows(runs, schedule_id, date_utc, time_utc) # {}
  THEN [id |-> None, runs |-> runs]
  ELSE [id |-> Len(runs) + 1,
        runs |-> Append(runs, NewRun(schedule_id, date_utc, time_utc))]

update_run_result_notext(runs, run_id, status, error_text) ==
  [n \in 1..Len(runs) |->
     IF n = run_id
     THEN [runs[n] EXCEPT !.status = status, !.error_text = NoText]
     ELSE runs[n]]

\* an UPDATE without its WHERE
update_run_result_all(runs, run_id, status, error_text) ==
  [n \in 1..Len(runs) |-> [runs[n] EXCEPT !.status = status, !.error_text = error_text]]

\* UPDATE schedule_runs SET status = ?, error_text = ? WHERE id = ?
update_run_result(runs, run_id, status, error_text) ==
  [n \in 1..Len(runs) |->
     IF n = run_id
     THEN [runs[n] EXCEPT !.status = status, !.error_text = error_text]
     ELSE runs[n]]


\* ---------------------------------------------------- execute_schedule
NoCall == <<>>

IdleTask ==
  [pc |-> "idle", schedule_id |-> 0, manual_trigger |-> FALSE,
   admin_user_id |-> None, target_all |-> FALSE, recipients |-> <<>>,
   date_str |-> 0, time_str |-> "", run_id |-> None,
   validation_error |-> NoText, countries_str |-> <<>>, messages |-> 0,
   i |-> 0, j |-> 0, k |-> 0, success_count |-> 0, status |-> ""]

\* lock: "" not reached, "completed" (should_run_schedule said no),
\*       "exists" (start_run_record returned None), "owned", "manual"
\* pre: status of the row of the slot when the run looked for it, "" if none
\* fetch: outcome of the acquisition call, "" before it
\* acq: the acquisition calls made (their parameters)
\* delivered: the <<chat, message index>> report sends that returned
\* failed: the chats for which a report send raised; blocked: with Forbidden
\* sends: the calls of bot.send_message of the broadcast loop in the order
\*        they were made: chat, message index and how the call ended
\* notices: the chats a notice was sent to; notice_failed: one of them raised
\* writes: number of update_run_result calls that named a row
\* escaped: an exception left execute_schedule
\* active0: the chats that were active subscribers when the run resolved its
\*          recipients (line 30)
IdleHist ==
  [lock |-> "", pre |-> "", fetch |-> "", acq |-> <<>>, delivered |-> {}, failed |-> {},
   blocked |-> {}, notices |-> {}, notice_failed |-> FALSE, writes |-> 0,
   escaped |-> FALSE, active0 |-> {}, sends |-> <<>>]

\* the chat ids of the rows with active = 1
ActiveChats(subs) == {subs[n].chat_id : n \in {m \in 1..Len(subs) : subs[m].active = 1}}

\* no add_subscriber call yet
NoReply == [chat_id |-> None, had_row |-> FALSE, is_new |-> FALSE]

\* no call of fetch_forecast, no page under inspection
FetchOff == [pc |-> "off"]
PageOff == [pc |-> "off"]

\* One execution of execute_schedule in its whole environment: nobody has
\* subscribed yet, no run is recorded, the other tasks have returned.
Init ==
  /\ today = 1
  /\ subscribers = <<>>
  /\ schedule_runs = <<>>
  /\ task = [e \in Execs |-> IF e = 1 THEN IdleTask ELSE [IdleTask EXCEPT !.pc = "done"]]
  /\ hist = [e \in Execs |-> IdleHist]
  /\ reply = NoReply
  /\ fe = FetchOff
  /\ pg = PageOff

\* Two executions of execute_schedule, triggered at any time, while one
\* chat is subscribed and no subscribe or unsubscribe command arrives.
InitRace ==
  /\ today = 1
  /\ subscribers = <<[chat_id |-> 1, active |-> 1]>>
  /\ schedule_runs = <<>>
  /\ task = [e \in Execs |-> IdleTask]
  /\ hist = [e \in Execs |-> IdleHist]
  /\ reply = NoReply
  /\ fe = FetchOff
  /\ pg = PageOff

\* line 22: the rows of get_all_schedules() with the requested id
FindSchedule(schedule_id) ==
  {n \in 1..Len(get_all_schedules) : get_all_schedules[n].id = schedule_id}

ScheduleOf(t) == get_all_schedules[t.schedule_id]

\* the administrators stand in when nobody is subscribed
ResolveRecipients_admins(manual_trigger, target_all, admin_user_id, subs) ==
  IF manual_trigger /\ ~target_all
  THEN IF admin_user_id # None THEN <<admin_user_id>> ELSE <<>>
  ELSE IF get_active_subscribers_chat_ids(subs) = <<>> THEN ADMIN_IDS
  ELSE get_active_subscribers_chat_ids(subs)

\* every run goes to the subscribers
ResolveRecipients_all(manual_trigger, target_all, admin_user_id, subs) ==
  get_active_subscribers_chat_ids(subs)

\* lines 31-37
ResolveRecipients(manual_trigger, target_all, admin_user_id, subs) ==
  IF manual_trigger /\ ~target_all
  THEN IF admin_user_id # None THEN <<admin_user_id>> ELSE <<>>
  ELSE get_active_subscribers_chat_ids(subs)

UsesRunRecord_always(manual_trigger) == TRUE

\* line 50: deduplication only for scheduled runs
UsesRunRecord(manual_trigger) == ~manual_trigger

\* strip() of every piece of countries.split(',')
RawCountries(s) == [n \in 1..Len(s.countries) |-> Strip(s.countries[n])]

\* a validation that drops the codes that do not normalize
Validate_partial(s) ==
  LET raw == RawCountries(s)
      good == SelectSeq(raw, LAMBDA c : normalize_country_code(c) # "")
  IN IF ~validate_language(s.language)
     THEN [error |-> <<"Invalid language", s.language>>, countries |-> <<>>]
     ELSE [error |-> NoText,
           countries |-> [n \in 1..Len(good) |-> normalize_country_code(good[n])]]

\* lines 62-79: language first, then the countries up to the first bad one
Validate(s) ==
  LET raw == RawCountries(s)
      bad == {n \in 1..Len(raw) : normalize_country_code(raw[n]) = ""}
  IN IF ~validate_language(s.language)
     THEN [error |-> <<"Invalid language", s.language>>, countries |-> <<>>]
     ELSE IF bad # {}
     THEN LET first == CHOOSE n \in bad : \A x \in bad : n <= x
          IN [error |-> <<"Invalid country code", raw[first]>>,
              countries |-> [n \in 1..(first - 1) |-> normalize_country_code(raw[n])]]
     ELSE [error |-> NoText,
           countries |-> [n \in 1..Len(raw) |-> normalize_country_code(raw[n])]]

\* an outcome that is never written
RecordResult_lost(runs, run_id, status, error_text) == runs

\* "if run_id: db.update_run_result(...)" (lines 83, 112, 156, 164)
RecordResult(runs, run_id, status, error_text) ==
  IF run_id # None
  THEN update_run_result(runs, run_id, status, error_text)
  ELSE runs

Wrote(run_id) == IF run_id # None THEN 1 ELSE 0

NoData_never(outcome) == FALSE

\* line 109: "if not data"
NoData(outcome) == outcome = "nodata"

HandledInLoop_noforbidden(disp) == disp \in {"rate", "other"}

\* lines 143-152: the except clauses of the broadcast loop
HandledInLoop(disp) == disp \in {"blocked", "rate", "other"}

CountAfterDelivered_each(success_count, j, messages) == success_count + 1

\* lines 134-136: success_count += 1 after the last message of a recipient
CountAfterDelivered(success_count, j, messages) ==
  IF j = messages THEN success_count + 1 ELSE success_count

FinalStatus_all(success_count, recipients) ==
  IF success_count = Len(recipients) THEN "success" ELSE "partial"

\* line 154
FinalStatus(success_count, recipients) ==
  IF success_count > 0 THEN "success" ELSE "partial"

ApiErrorText == <<"API returned no data or failed.", "">>
ExcText == <<"exception", "">>

\* the history after a report send to chat_id, message j, with outcome disp
Sent(h, chat_id, j, disp) ==
  LET g == [h EXCEPT !.sends = Append(@, [chat_id |-> chat_id, j |-> j, disp |-> disp])]
  IN IF disp = "delivered"
     THEN [g EXCEPT !.delivered = @ \cup {<<chat_id, j>>}]
     ELSE [g EXCEPT !.failed = @ \cup {chat_id},
                    !.blocked = IF disp = "blocked" THEN @ \cup {chat_id} ELSE @]

\* the history after a notice to chat `to`
Noticed(h, to, ok) ==
  [h EXCEPT !.notices = @ \cup {to}, !.notice_failed = @ \/ ~ok]


SetTask(e, t) == task' = [task EXCEPT ![e] = t]
SetHist(e, h) == hist' = [hist EXCEPT ![e] = h]
Finished(t) == [t EXCEPT !.pc = "done"]

\* Lines 20-53: load the schedule, resolve the recipients, read the date
\* and, for a scheduled run, ask should_run_schedule.
Begin(e) ==
  /\ task[e].pc = "idle"
  /\ \A f \in Execs : f < e => task[f].pc # "idle"   \* executions are numbered as they start
  /\ \E schedule_id \in RequestIds, manual_trigger \in BOOLEAN, target_all \in BOOLEAN :
       /\ target_all => manual_trigger
       /\ LET admin_user_id == IF manual_trigger THEN ADMIN_IDS[1] ELSE None
              t0 == [task[e] EXCEPT !.schedule_id = schedule_id,
                                    !.manual_trigger = manual_trigger,
                                    !.admin_user_id = admin_user_id,
                                    !.target_all = target_all]
              recipients == ResolveRecipients(manual_trigger, target_all,
                                              admin_user_id, subscribers)
              h0 == [hist[e] EXCEPT !.active0 = ActiveChats(subscribers)]
          IN IF FindSchedule(schedule_id) = {}
             THEN /\ SetTask(e, [t0 EXCEPT !.pc =
                        IF manual_trigger /\ admin_user_id # None
                        THEN "notfound_notice" ELSE "done"])
                  /\ UNCHANGED hist
             ELSE IF recipients = <<>>
             THEN /\ SetTask(e, Finished(t0))
                  /\ SetHist(e, h0)
             ELSE LET s == get_all_schedules[schedule_id]
                      t1 == [t0 EXCEPT !.recipients = recipients,
                                       !.date_str = today,
                                       !.time_str = s.time_utc]
                  IN IF UsesRunRecord(manual_trigger)
                        /\ ~should_run_schedule(schedule_runs, schedule_id, today, s.time_utc)
                     THEN /\ SetTask(e, Finished(t1))
                          /\ SetHist(e, [h0 EXCEPT
                                !.lock = "completed",
                                !.pre = SlotStatus(schedule_runs, schedule_id,
                                                   today, s.time_utc)])
                     ELSE /\ SetTask(e, [t1 EXCEPT !.pc = "lock"])
                          /\ SetHist(e, h0)
  /\ UNCHANGED <<today, subscribers, schedule_runs, reply, fe, pg>>

\* Lines 48-58: start_run_record for a scheduled run.
Lock(e) ==
  /\ task[e].pc = "lock"
  /\ LET t == task[e]
         lk == IF UsesRunRecord(t.manual_trigger)
               THEN start_run_record(schedule_runs, t.schedule_id, t.date_str, t.time_str)
               ELSE [id |-> None, runs |-> schedule_runs]
         pre == IF t.manual_trigger THEN ""
                ELSE SlotStatus(schedule_runs, t.schedule_id, t.date_str, t.time_str)
     IN IF UsesRunRecord(t.manual_trigger) /\ lk.id = None
        THEN /\ SetTask(e, Finished(t))
             /\ SetHist(e, [hist[e] EXCEPT !.lock = "exists", !.pre = pre])
             /\ schedule_runs' = lk.runs
        ELSE /\ SetHist(e, [hist[e] EXCEPT
                    !.lock = IF lk.id # None THEN "owned" ELSE "manual",
                    !.pre = pre])
             /\ schedule_runs' = lk.runs
             /\ SetTask(e, [t EXCEPT !.run_id = lk.id, !.pc = "validate"])
  /\ UNCHANGED <<today, subscribers, reply, fe, pg>>

\* Lines 60-97: the validation and, when it fails, the write of the error.
CheckSchedule(e) ==
  /\ task[e].pc = "validate"
  /\ LET t == task[e]
         v == Validate(ScheduleOf(t))
     IN IF v.error # NoText
        THEN /\ schedule_runs' = RecordResult(schedule_runs, t.run_id, "error", v.error)
             /\ SetHist(e, [hist[e] EXCEPT !.writes = Wrote(t.run_id)])
             /\ SetTask(e, [t EXCEPT
                  !.validation_error = v.error,
                  !.k = 1,
                  !.pc = IF t.manual_trigger
                         THEN IF t.admin_user_id # None
                              THEN "notify_validation" ELSE "done"
                         ELSE IF Len(ADMIN_IDS) > 0
                              THEN "notify_validation" ELSE "done"])
        ELSE /\ UNCHANGED <<schedule_runs, hist>>
             /\ SetTask(e, [t EXCEPT !.countries_str = v.countries, !.pc = "fetch"])
  /\ UNCHANGED <<today, subscribers, reply, fe, pg>>


FetchOutcomes == {"data", "nodata", "raise", "format_raise"}
Dispositions == {"delivered", "blocked", "rate", "other"}

\* where a run goes after a failure was recorded: the manual invoker is told,
\* or the administrators are (lines 86-94, 114-123)
NoticePc(t, pc) ==
  IF t.manual_trigger
  THEN IF t.admin_user_id # None THEN pc ELSE "done"
  ELSE IF Len(ADMIN_IDS) > 0 THEN pc ELSE "done"

\* Lines 100-130: the acquisition call returns (or raises) and the report
\* is formatted.
Fetch(e) ==
  /\ task[e].pc = "fetch"
  /\ \E outcome \in FetchOutcomes, m \in 1..NumMsgs :
       /\ outcome # "data" => m = 1
       /\ LET t == task[e]
              h == [hist[e] EXCEPT
                      !.fetch = outcome,
                      !.acq = Append(@, [countries |-> t.countries_str,
                                         language |-> ScheduleOf(t).language])]
          IN IF outcome \in {"raise", "format_raise"}
             THEN \* except Exception (lines 162-165)
                  /\ schedule_runs' = RecordResult(schedule_runs, t.run_id, "error", ExcText)
                  /\ SetTask(e, Finished(t))
                  /\ SetHist(e, [h EXCEPT !.writes = @ + Wrote(t.run_id)])
             ELSE IF NoData(outcome)
             THEN /\ schedule_runs' = RecordResult(schedule_runs, t.run_id, "error", ApiErrorText)
                  /\ SetTask(e, [t EXCEPT !.k = 1, !.pc = NoticePc(t, "notify_failure")])
                  /\ SetHist(e, [h EXCEPT !.writes = @ + Wrote(t.run_id)])
             ELSE /\ schedule_runs' = schedule_runs
                  /\ SetTask(e, [t EXCEPT !.messages = m, !.i = 1, !.j = 1,
                                          !.success_count = 0, !.pc = "send"])
                  /\ SetHist(e, h)
  /\ UNCHANGED <<today, subscribers, reply, fe, pg>>

\* the loop tries the same message again
NextRecipient_again(t, runs) == [task |-> t, runs |-> runs, wrote |-> 0]

\* the loop moves to the next recipient, or ends (lines 154-160)
NextRecipient(t, runs) ==
  IF t.i < Len(t.recipients)
  THEN [task |-> [t EXCEPT !.i = @ + 1, !.j = 1], runs |-> runs, wrote |-> 0]
  ELSE LET status == FinalStatus(t.success_count, t.recipients)
       IN [task |-> [t EXCEPT !.status = status,
                              !.pc = IF t.manual_trigger /\ t.admin_user_id # None
                                     THEN "report_count" ELSE "done"],
           runs |-> RecordResult(runs, t.run_id, status, NoText),
           wrote |-> Wrote(t.run_id)]

\* Lines 132-152: one bot.send_message of the broadcast loop and what
\* follows it up to the next await.
Send(e) ==
  /\ task[e].pc = "send"
  /\ \E disp \in Dispositions :
       LET t == task[e]
           chat_id == t.recipients[t.i]
           h == Sent(hist[e], chat_id, t.j, disp)
           counted == [t EXCEPT !.success_count =
                         CountAfterDelivered(@, t.j, t.messages)]
       IN IF disp = "delivered"
          THEN IF t.j < t.messages
               THEN /\ SetTask(e, [counted EXCEPT !.j = @ + 1])
                    /\ SetHist(e, h)
                    /\ UNCHANGED <<subscribers, schedule_runs>>
               ELSE LET nx == NextRecipient(counted, schedule_runs)
                    IN /\ SetTask(e, nx.task)
                       /\ SetHist(e, [h EXCEPT !.writes = @ + nx.wrote])
                       /\ schedule_runs' = nx.runs
                       /\ UNCHANGED subscribers
          ELSE IF HandledInLoop(disp)
          THEN LET nx == NextRecipient(t, schedule_runs)
               IN /\ SetTask(e, nx.task)
                  /\ SetHist(e, [h EXCEPT !.writes = @ + nx.wrote])
                  /\ schedule_runs' = nx.runs
                  /\ subscribers' = IF disp = "blocked"
                                    THEN unsubscribe_user(subscribers, chat_id)
                                    ELSE subscribers
          ELSE \* the outer except Exception (lines 162-165)
               /\ SetTask(e, Finished(t))
               /\ SetHist(e, [h EXCEPT !.writes = @ + Wrote(t.run_id)])
               /\ schedule_runs' = RecordResult(schedule_runs, t.run_id, "error", ExcText)
               /\ UNCHANGED subscribers
  /\ UNCHANGED <<today, reply, fe, pg>>

\* Lines 86-94 and 114-123: one notice after a validation or acquisition
\* failure.  A notice to an administrator of a scheduled run is best effort;
\* the notice to the manual invoker is not guarded at lines 86-87 and is
\* inside the try at lines 114-115.
Notify(e) ==
  /\ task[e].pc \in {"notify_validation", "notify_failure"}
  /\ \E ok \in BOOLEAN :
       LET t == task[e]
           to == IF t.manual_trigger THEN t.admin_user_id ELSE ADMIN_IDS[t.k]
           h == Noticed(hist[e], to, ok)
       IN IF t.manual_trigger
          THEN IF ok
               THEN /\ SetTask(e, Finished(t))
                    /\ SetHist(e, h)
                    /\ UNCHANGED schedule_runs
               ELSE IF t.pc = "notify_validation"
               THEN /\ SetTask(e, Finished(t))
                    /\ SetHist(e, [h EXCEPT !.escaped = TRUE])
                    /\ UNCHANGED schedule_runs
               ELSE /\ SetTask(e, Finished(t))
                    /\ SetHist(e, [h EXCEPT !.writes = @ + Wrote(t.run_id)])
                    /\ schedule_runs' = RecordResult(schedule_runs, t.run_id, "error", ExcText)
          ELSE /\ SetTask(e, IF t.k < Len(ADMIN_IDS)
                             THEN [t EXCEPT !.k = @ + 1] ELSE Finished(t))
               /\ SetHist(e, h)
               /\ UNCHANGED schedule_runs
  /\ UNCHANGED <<today, subscribers, reply, fe, pg>>

\* Lines 159-165: the delivered count is reported to the manual invoker.
ReportCount(e) ==
  /\ task[e].pc = "report_count"
  /\ \E ok \in BOOLEAN :
       LET t == task[e]
           h == Noticed(hist[e], t.admin_user_id, ok)
       IN /\ SetTask(e, Finished(t))
          /\ IF ok
             THEN /\ SetHist(e, h)
                  /\ UNCHANGED schedule_runs
             ELSE /\ SetHist(e, [h EXCEPT !.writes = @ + Wrote(t.run_id)])
                  /\ schedule_runs' = RecordResult(schedule_runs, t.run_id, "error", ExcText)
  /\ UNCHANGED <<today, subscribers, reply, fe, pg>>

\* Lines 24-28: the "Schedule ID not found" notice of a manual run.
NotFoundNotice(e) ==
  /\ task[e].pc = "notfound_notice"
  /\ \E ok \in BOOLEAN :
       LET t == task[e]
       IN /\ SetTask(e, Finished(t))
          /\ SetHist(e, [Noticed(hist[e], t.admin_user_id, ok) EXCEPT !.escaped = ~ok])
  /\ UNCHANGED <<today, subscribers, schedule_runs, reply, fe, pg>>

\* handlers.subscribe
Subscribe(chat_id) ==
  /\ subscribers' = add_subscriber(subscribers, chat_id)
  /\ reply' = [chat_id |-> chat_id,
               had_row |-> \E n \in 1..Len(subscribers) : subscribers[n].chat_id = chat_id,
               is_new |-> add_subscriber_returns(subscribers, chat_id)]
  /\ UNCHANGED <<today, schedule_runs, task, hist, fe, pg>>

\* handlers.unsubscribe
Unsubscribe(chat_id) ==
  /\ subscribers' = unsubscribe_user(subscribers, chat_id)
  /\ UNCHANGED <<today, schedule_runs, task, hist, reply, fe, pg>>

\* midnight UTC passes: datetime.utcnow() yields the next date
NextDay ==
  /\ today < MaxDate
  /\ today' = today + 1
  /\ UNCHANGED <<subscribers, schedule_runs, task, hist, reply, fe, pg>>

Next ==
  \/ \E e \in Execs : Begin(e)
  \/ \E e \in Execs : Lock(e)
  \/ \E e \in Execs : CheckSchedule(e)
  \/ \E e \in Execs : Fetch(e)
  \/ \E e \in Execs : Send(e)
  \/ \E e \in Execs : Notify(e)
  \/ \E e \in Execs : ReportCount(e)
  \/ \E e \in Execs : NotFoundNotice(e)
  \/ \E c \in Chats : Subscribe(c)
  \/ \E c \in Chats : Unsubscribe(c)
  \/ NextDay

NextRace ==
  \/ \E e \in Execs : Begin(e)
  \/ \E e \in Execs : Lock(e)
  \/ \E e \in Execs : CheckSchedule(e)
  \/ \E e \in Execs : Fetch(e)
  \/ \E e \in Execs : Send(e)
  \/ \E e \in Execs : Notify(e)
  \/ \E e \in Execs : ReportCount(e)
  \/ \E e \in Execs : NotFoundNotice(e)
  \/ NextDay

\* database.deactivate_subscriber_by_id, for any row id a caller may pass
DeactivateById(sub_id) ==
  /\ subscribers' = deactivate_subscriber_by_id(subscribers, sub_id)
  /\ UNCHANGED <<today, schedule_runs, task, hist, reply, fe, pg>>

\* every operation that writes table subscribers
NextSubs ==
  \/ Next
  \/ \E sub_id \in 1..Cardinality(Chats) : DeactivateById(sub_id)

\* one execution, subscribers coming and going, the clock
Spec == Init /\ [][Next]_vars

\* the same with deactivations by row id
SpecSubs == Init /\ [][NextSubs]_vars

\* concurrent executions and the clock
SpecRace == InitRace /\ [][NextRace]_vars

\* The execution stops for good (the process is killed, the task is
\* cancelled) after start_run_record has committed its row (line 55) and
\* before any update_run_result: right after the INSERT, while the
\* acquisition is awaited, or in the middle of the broadcast.
Crash(e) ==
  /\ task[e].pc \in {"validate", "fetch", "send"}
  /\ task[e].run_id # None
  /\ SetTask(e, [task[e] EXCEPT !.pc = "crashed"])
  /\ UNCHANGED <<today, subscribers, schedule_runs, hist, reply, fe, pg>>

NextCrash ==
  \/ NextRace
  \/ \E e \in Execs : Crash(e)

\* concurrent executions any of which may stop while it holds its record
SpecCrash == InitRace /\ [][NextCrash]_vars


\* Lines 143-150 and 162-165: a send raises Forbidden or RetryAfter and the
\* statement of its handler raises in turn (db.unsubscribe_user cannot write,
\* asyncio.sleep rejects the value of e.retry_after); the exception leaves
\* the loop and reaches the except of line 162.
HandlerRaises(e) ==
  /\ task[e].pc = "send"
  /\ \E disp \in {"blocked", "rate"} :
       LET t == task[e]
           h == Sent(hist[e], t.recipients[t.i], t.j, disp)
       IN /\ SetTask(e, Finished(t))
          /\ SetHist(e, [h EXCEPT !.writes = @ + Wrote(t.run_id)])
          /\ schedule_runs' = RecordResult(schedule_runs, t.run_id, "error", ExcText)
  /\ UNCHANGED <<today, subscribers, reply, fe, pg>>

\* the steps of one execution after it was triggered
Run(e) ==
  \/ Lock(e)
  \/ CheckSchedule(e)
  \/ Fetch(e)
  \/ Send(e)
  \/ HandlerRaises(e)
  \/ Notify(e)
  \/ ReportCount(e)
  \/ NotFoundNotice(e)

\* one execution while two chats are subscribed
InitLive ==
  /\ today = 1
  /\ subscribers = <<[chat_id |-> 1, active |-> 1], [chat_id |-> 2, active |-> 1]>>
  /\ schedule_runs = <<>>
  /\ task = [e \in Execs |-> IF e = 1 THEN IdleTask ELSE [IdleTask EXCEPT !.pc = "done"]]
  /\ hist = [e \in Execs |-> IdleHist]
  /\ reply = NoReply
  /\ fe = FetchOff
  /\ pg = PageOff

NextLive ==
  \/ \E e \in Execs : Begin(e)
  \/ \E e \in Execs : Run(e)

\* An execution that is not interrupted: every await of it returns or
\* raises (fetch_forecast ends, bot.send_message has its timeouts), so the
\* event loop resumes the task until it returns.  The statements of the
\* handlers of the broadcast loop may raise.
SpecLive == InitLive /\ [][NextLive]_vars /\ \A e \in Execs : WF_vars(Run(e))

\* ---------------------------------------------------- api_client.py: data
MIN_SUMMARY_LEN == 20
MIN_SOURCES_LEN == 1

\* A str is the sequence of its parts; `x in s` asks for a part.
Mentions(words, part) == \E n \in 1..Len(words) : Lower(words[n]) = part

\* The summary of a result: null, or a str with `pad` blanks at its ends
\* around `len` characters.
NullText == [null |-> TRUE, pad |-> 0, len |-> 0]
Text(pad, len) == [null |-> FALSE, pad |-> pad, len |-> len]
\* len((summary or "").strip())
StripLen(t) == IF t.null THEN 0 ELSE t.len

\* The sources of a result: a list of `len` entries, or a value that is not
\* a list (key absent, null, a str of `len` characters).
ListOf(len) == [list |-> TRUE, len |-> len]
NotAList(len) == [list |-> FALSE, len |-> len]

\* metadata.articleCount: absent (or metadata absent, null, not an object),
\* or a value on which int() succeeds with `value`, or fails
NoCount == [has |-> FALSE, parses |-> FALSE, value |-> 0]
Count(value) == [has |-> TRUE, parses |-> TRUE, value |-> value]
JunkCount == [has |-> TRUE, parses |-> FALSE, value |-> 0]

\* The error of a result: falsy (absent, null, ""), a str (with the object
\* it parses to as JSON, if any), or an object.
NoObj == [dict |-> FALSE, message |-> <<>>, status |-> "", reasons |-> <<>>, metas |-> <<>>]
ErrObj(message, status, reasons, metas) ==
  [dict |-> TRUE, message |-> message, status |-> status, reasons |-> reasons,
   metas |-> metas]
NoErr == [kind |-> "none", words |-> <<>>, obj |-> NoObj]
StrErr(words, obj) == [kind |-> "str", words |-> words, obj |-> obj]
ObjErr(obj) == [kind |-> "obj", words |-> <<>>, obj |-> obj]

KeyErrText == StrErr(<<"Error:", "API key not valid">>, NoObj)
OtherErrText == StrErr(<<"Quota exceeded">>, NoObj)
KeyErrObj ==
  ObjErr(ErrObj(<<"Request denied">>, "permission_denied", <<"", "api_key_invalid">>, <<>>))
\* the reason of a key failure under a status that is not a key failure
OtherErrObj == ObjErr(ErrObj(<<"Not found">>, "NOT_FOUND", <<"API_KEY_INVALID">>, <<>>))
\* a str that holds the JSON of an error whose metadata names the key failure
KeyErrJson ==
  StrErr(<<"{error: ...}">>,
         ErrObj(<<"Bad request">>, "INVALID_ARGUMENT", <<"">>, <<"API_KEY_INVALID">>))

\* One element of results: an object with these fields, or something else.
Item(error, summary, sources, metadata) ==
  [dict |-> TRUE, error |-> error, summary |-> summary, sources |-> sources,
   metadata |-> metadata]
NotAnItem ==
  [dict |-> FALSE, error |-> NoErr, summary |-> NullText, sources |-> NotAList(0),
   metadata |-> NoCount]

\* The parsed JSON of a block: an object with its results (a list or not),
\* or another value.
Report(results) == [dict |-> TRUE, list |-> TRUE, results |-> results]
NoResults == [dict |-> TRUE, list |-> FALSE, results |-> <<>>]
NoneData == [dict |-> FALSE, list |-> FALSE, results |-> <<>>]

\* ---------------------------------------------------- api_client.py: checks
\* an articleCount that int() rejects counts as none
NoArticles_junk(m) == m.has /\ (~m.parses \/ m.value <= 0)

\* lines 59-64 for one item: articleCount is present and int(.. or 0) <= 0
NoArticles(m) == m.has /\ m.parses /\ m.value <= 0

\* a check that looks at the first result only
ItemsChecked_first(results) == IF results = <<>> THEN {} ELSE {1}

\* line 37: every element of results is checked
ItemsChecked(results) == 1..Len(results)

\* lines 38-64 for one element of results
ItemFinal(item) ==
  /\ item.dict
  /\ item.error.kind = "none"
  /\ StripLen(item.summary) >= MIN_SUMMARY_LEN
  /\ item.sources.list
  /\ item.sources.len >= MIN_SOURCES_LEN
  /\ ~NoArticles(item.metadata)

\* lines 24-66, the first component of the pair returned
is_final_report(data) ==
  /\ data.dict
  /\ data.list
  /\ data.results # <<>>
  /\ \A n \in ItemsChecked(data.results) : ItemFinal(data.results[n])

\* lines 98-115 for one error object
KeyInvalidObj(o) ==
  /\ o.dict
  /\ \/ Mentions(o.message, "api key not valid")
     \/ /\ Upper(o.status) \in {"INVALID_ARGUMENT", "PERMISSION_DENIED"}
        /\ \/ \E n \in 1..Len(o.reasons) : Upper(o.reasons[n]) = "API_KEY_INVALID"
           \/ Mentions(o.metas, "api_key_invalid")

\* lines 81-115 for one element of results
KeyInvalidItem(item) ==
  /\ item.dict
  /\ item.error.kind # "none"
  /\ \/ /\ item.error.kind = "str"
        /\ \/ Mentions(item.error.words, "api key not valid")
           \/ Mentions(item.error.words, "api_key_invalid")
     \/ KeyInvalidObj(item.error.obj)

\* lines 68-116
is_api_key_invalid_report(data) ==
  /\ data.dict
  /\ data.list
  /\ data.results # <<>>
  /\ \E n \in 1..Len(data.results) : KeyInvalidItem(data.results[n])

\* A <pre> block as _read_pre_texts returns it: how its text begins, whether
\* it contains "results" in quotes, and what json.loads makes of it.
Block(head, results_key, parses, data) ==
  [head |-> head, results_key |-> results_key, parses |-> parses, data |-> data]

\* line 131
IsLoading(b) == Lower(b.head) = "loading analysis"

\* lines 131-141: the blocks that reach is_final_report
IsCandidate(b) == ~IsLoading(b) /\ b.head = "{" /\ b.results_key /\ b.parses

Inspection(final_data, loading_present, api_key_invalid) ==
  [final_data |-> final_data, loading_present |-> loading_present,
   api_key_invalid |-> api_key_invalid]

\* lines 126-151 on the texts read from the page: the loop returns at the
\* first block that is final or reports an invalid key
inspect_page(pre_texts) ==
  LET loading_present == \E n \in 1..Len(pre_texts) : IsLoading(pre_texts[n])
      hits == {n \in 1..Len(pre_texts) :
                 /\ IsCandidate(pre_texts[n])
                 /\ \/ is_final_report(pre_texts[n].data)
                    \/ is_api_key_invalid_report(pre_texts[n].data)}
  IN IF hits = {}
     THEN Inspection(NoneData, loading_present, FALSE)
     ELSE LET first == CHOOSE n \in hits : \A m \in hits : n <= m
          IN IF is_final_report(pre_texts[first].data)
             THEN Inspection(pre_texts[first].data, loading_present, FALSE)
             ELSE Inspection(NoneData, loading_present, TRUE)


\* ---------------------------------------------------- reports and pages
\* all sequences over S of at most n elements
SeqUpTo(S, n) == UNION {[1..k -> S] : k \in 0..n}

\* results of every shape the checks of is_final_report tell apart
ItemPool ==
  {Item(e, t, s, m) :
     e \in {NoErr, OtherErrText},
     t \in {Text(2, MIN_SUMMARY_LEN - 1), Text(1, MIN_SUMMARY_LEN)},
     s \in {NotAList(3), ListOf(MIN_SOURCES_LEN - 1), ListOf(MIN_SOURCES_LEN)},
     m \in {NoCount, Count(0), Count(5), JunkCount}}
  \cup {Item(KeyErrText, Text(1, MIN_SUMMARY_LEN), ListOf(MIN_SOURCES_LEN), NoCount),
        Item(KeyErrObj, Text(1, MIN_SUMMARY_LEN), ListOf(MIN_SOURCES_LEN), NoCount),
        Item(NoErr, NullText, ListOf(MIN_SOURCES_LEN), NoCount),
        NotAnItem}

\* the values handed to is_final_report
Reports == {Report(r) : r \in SeqUpTo(ItemPool, MaxResults)} \cup {NoResults, NoneData}

Good == Item(NoErr, Text(1, MIN_SUMMARY_LEN), ListOf(MIN_SOURCES_LEN), NoCount)
GoodCounted == Item(NoErr, Text(0, MIN_SUMMARY_LEN + 1), ListOf(MIN_SOURCES_LEN + 1), Count(5))
Short == Item(NoErr, Text(2, MIN_SUMMARY_LEN - 1), ListOf(MIN_SOURCES_LEN), NoCount)
KeyItem == Item(KeyErrText, NullText, NotAList(0), NoCount)
JsonKeyItem == Item(KeyErrJson, NullText, NotAList(0), NoCount)
OtherObjItem == Item(OtherErrObj, NullText, NotAList(0), NoCount)

FinalOne == Report(<<Good>>)
FinalTwo == Report(<<Good, GoodCounted>>)
Partial == Report(<<Good, Short>>)
KeyInvalid == Report(<<KeyItem>>)
KeyInvalidJson == Report(<<Good, JsonKeyItem>>)
Failed == Report(<<OtherObjItem>>)

LoadingBlock == Block("Loading analysis", FALSE, FALSE, NoneData)
PlainBlock == Block("No forecast yet", FALSE, FALSE, NoneData)
\* a JSON text cut short: json.loads raises JSONDecodeError
BrokenBlock == Block("{", TRUE, FALSE, NoneData)
JsonBlock(data) == Block("{", TRUE, TRUE, data)

\* the blocks a poll may find on the page
SampleBlocks ==
  {LoadingBlock, PlainBlock, BrokenBlock}
  \cup {JsonBlock(d) : d \in {FinalOne, FinalTwo, Partial, KeyInvalid, KeyInvalidJson, Failed}}

Pages == SeqUpTo(SampleBlocks, MaxBlocks)

\* ---------------------------------------------------- the checks at work
\* pg: a call of is_final_report on pg.data ("report") or of inspect_page
\* on a page showing pg.page ("page"), and what it returned
NoInspection == Inspection(NoneData, FALSE, FALSE)
ReportCall(data) ==
  [pc |-> "report", data |-> data, page |-> <<>>, final |-> FALSE, insp |-> NoInspection]
PageCall(page) ==
  [pc |-> "page", data |-> NoneData, page |-> page, final |-> FALSE, insp |-> NoInspection]

InitInspect ==
  /\ today = 1
  /\ subscribers = <<>>
  /\ schedule_runs = <<>>
  /\ task = [e \in Execs |-> [IdleTask EXCEPT !.pc = "done"]]
  /\ hist = [e \in Execs |-> IdleHist]
  /\ reply = NoReply
  /\ fe = FetchOff
  /\ pg \in {ReportCall(d) : d \in Reports} \cup {PageCall(p) : p \in Pages}

CheckReport ==
  /\ pg.pc = "report"
  /\ pg' = [pg EXCEPT !.pc = "report_done", !.final = is_final_report(pg.data)]
  /\ UNCHANGED <<today, subscribers, schedule_runs, task, hist, reply, fe>>

InspectPage ==
  /\ pg.pc = "page"
  /\ pg' = [pg EXCEPT !.pc = "page_done", !.insp = inspect_page(pg.page)]
  /\ UNCHANGED <<today, subscribers, schedule_runs, task, hist, reply, fe>>

NextInspect ==
  \/ CheckReport
  \/ InspectPage

\* is_final_report and inspect_page on every input of the universes above
SpecInspect == InitInspect /\ [][NextInspect]_vars

\* ---------------------------------------------------- fetch_forecast
MAX_RELOADS == 2
LOADING_STUCK_SEC == 180

\* config.REQUEST_TIMEOUT_SEC when the environment does not set it
REQUEST_TIMEOUT_SEC == 60

\* the values of config.REQUEST_TIMEOUT_SEC: the default and a deployment
\* that allows for two phases of LOADING_STUCK_SEC and a poll after them
RequestTimeouts == {REQUEST_TIMEOUT_SEC, 360}

\* seconds a page operation takes before it returns or raises (page.reload
\* and page.goto give up after 60000 ms)
OpDelays == {0, 60}

\* how page.reload and the fallback page.goto of reload_page end
ReloadOutcomes == {"reloaded", "navigated", "failed"}

After_frozen(now, secs) == now

\* time.time() after an await that took secs seconds
After(now, secs) == now + secs

TimedOut_late(overall_elapsed, request_timeout) ==
  overall_elapsed > (request_timeout + 60) + LOADING_STUCK_SEC

\* line 233
TimedOut(overall_elapsed, request_timeout) == overall_elapsed > request_timeout + 60

\* a budget of one reload more
MayReload_more(reloads_done) == reloads_done <= MAX_RELOADS

\* lines 247 and 258
MayReload(reloads_done) == reloads_done < MAX_RELOADS

\* a reload that is not counted
Counted_forgotten(reloads_done) == reloads_done

\* lines 248 and 259: reloads_done += 1
Counted(reloads_done) == reloads_done + 1

\* line 257
Stuck(loading_present, phase_elapsed) ==
  loading_present /\ phase_elapsed >= LOADING_STUCK_SEC

\* A call of fetch_forecast before async_playwright() is entered.  now is
\* time.time() - overall_start, so overall_start is 0 and phase_start is
\* counted from it.  result, data, cause, last_page and inspected are set
\* when the call ends: what it gave to its caller and why, what the page
\* showed in its last poll cycle and whether that cycle read the page.
\* The other fields record what the call has done:
\*   key_reloads, stuck_reloads: the calls of reload_page made at line 249
\*     and at line 260
\*   trigger, loading: while reload_page runs, which of the two lines called
\*     it and whether the inspection before it saw a loading block
\*   reload_end: the time at which the last reload_page returned (0 if none)
\*   stuck_ignored: during the sleep of line 265, the inspection before it
\*     met the condition of line 257 with no reload left
\*   seen: "" before the first inspection, "key" while every inspection has
\*     reported an invalid key, "mixed" afterwards
NewFetch(request_timeout) ==
  [pc |-> "start", REQUEST_TIMEOUT_SEC |-> request_timeout, now |-> 0,
   phase_start |-> 0, reloads_done |-> 0, result |-> "", data |-> NoneData,
   cause |-> "", last_page |-> <<>>, inspected |-> FALSE,
   key_reloads |-> 0, stuck_reloads |-> 0, trigger |-> "", loading |-> FALSE,
   reload_end |-> 0, stuck_ignored |-> FALSE, seen |-> ""]

\* the call has ended (its clock readings are gone with its frame)
Ended(f, result, data, cause, page, inspected) ==
  [f EXCEPT !.pc = "done", !.now = 0, !.phase_start = 0, !.result = result,
            !.data = data, !.cause = cause, !.last_page = page,
            !.inspected = inspected, !.reload_end = 0]

\* seen after one more inspection
Seen(seen, api_key_invalid) ==
  IF api_key_invalid /\ seen \in {"", "key"} THEN "key" ELSE "mixed"

\* the loop gives up when loading is stuck and no reload is left
KeepPolling_giveup(f, now) == Ended(f, "none", NoneData, "stuck", <<>>, TRUE)

\* lines 257-265 when reloads_done = MAX_RELOADS: no reload, the sleep
KeepPolling(f, now) == [f EXCEPT !.pc = "sleep", !.now = now, !.stuck_ignored = TRUE]

\* "return None"
ReturnNone(f, cause, page, inspected) == Ended(f, "none", NoneData, cause, page, inspected)

\* lines 164-177 and the line after the call (250, 261): the 5 s sleep,
\* page.reload, the cache-busting page.goto when it fails (whose own failure
\* reaches line 267), the wait for <pre>, then phase_start = time.time()
Reloaded_noreset(f, outcome, delay) ==
  IF outcome = "failed"
  THEN ReturnNone([f EXCEPT !.trigger = "", !.loading = FALSE], "error", <<>>, FALSE)
  ELSE [f EXCEPT !.pc = "poll",
                 !.now = After(After(f.now, 5), delay),
                 !.reload_end = After(After(f.now, 5), delay),
                 !.trigger = "", !.loading = FALSE]

Reloaded(f, outcome, delay) ==
  IF outcome = "failed"
  THEN ReturnNone([f EXCEPT !.trigger = "", !.loading = FALSE], "error", <<>>, FALSE)
  ELSE [f EXCEPT !.pc = "poll",
                 !.now = After(After(f.now, 5), delay),
                 !.phase_start = After(After(f.now, 5), delay),
                 !.reload_end = After(After(f.now, 5), delay),
                 !.trigger = "", !.loading = FALSE]

\* what the page may show when a poll cycle begins
PollPages ==
  {<<>>,
   <<LoadingBlock>>,
   <<PlainBlock, BrokenBlock>>,
   <<JsonBlock(FinalOne)>>,
   <<LoadingBlock, JsonBlock(FinalTwo)>>,
   <<JsonBlock(Partial)>>,
   <<LoadingBlock, JsonBlock(Partial)>>,
   <<JsonBlock(KeyInvalid)>>,
   <<LoadingBlock, JsonBlock(KeyInvalidJson)>>,
   <<JsonBlock(KeyInvalid), JsonBlock(FinalOne)>>,
   <<JsonBlock(Failed), JsonBlock(FinalTwo)>>}

InitFetch ==
  /\ today = 1
  /\ subscribers = <<>>
  /\ schedule_runs = <<>>
  /\ task = [e \in Execs |-> [IdleTask EXCEPT !.pc = "done"]]
  /\ hist = [e \in Execs |-> IdleHist]
  /\ reply = NoReply
  /\ pg = PageOff
  /\ fe \in {NewFetch(t) : t \in RequestTimeouts}

\* Line 201: async_playwright() is entered, outside the try of line 202; an
\* exception of it leaves fetch_forecast.
StartPlaywright ==
  /\ fe.pc = "start"
  /\ \E ok \in BOOLEAN :
       fe' = IF ok THEN [fe EXCEPT !.pc = "launch"]
             ELSE Ended(fe, "raised", NoneData, "start", <<>>, FALSE)
  /\ UNCHANGED <<today, subscribers, schedule_runs, task, hist, reply, pg>>

\* Lines 203-210: chromium.launch, new_context, new_page; an exception is
\* caught at line 267.
LaunchBrowser ==
  /\ fe.pc = "launch"
  /\ \E ok \in BOOLEAN :
       fe' = IF ok THEN [fe EXCEPT !.pc = "goto"]
             ELSE ReturnNone(fe, "error", <<>>, FALSE)
  /\ UNCHANGED <<today, subscribers, schedule_runs, task, hist, reply, pg>>

\* Lines 213-227: page.goto (its failure returns None at line 217), the
\* wait for <pre> whose timeout is ignored, and the start of the clocks.
Navigate ==
  /\ fe.pc = "goto"
  /\ \E ok \in BOOLEAN :
       fe' = IF ok THEN [fe EXCEPT !.pc = "poll", !.now = 0, !.phase_start = 0,
                                   !.reloads_done = 0]
             ELSE ReturnNone(fe, "navigation", <<>>, FALSE)
  /\ UNCHANGED <<today, subscribers, schedule_runs, task, hist, reply, pg>>

\* Lines 230-262: the top of a cycle of the polling loop, up to the await
\* that follows the inspection.  page is what the browser shows, read_ok
\* whether page.evaluate returned, delay the seconds inspect_page took.
Poll ==
  /\ fe.pc = "poll"
  /\ \E page \in PollPages :
       IF TimedOut(fe.now, fe.REQUEST_TIMEOUT_SEC)
       THEN fe' = ReturnNone(fe, "timeout", page, FALSE)
       ELSE \E read_ok \in BOOLEAN, delay \in OpDelays :
         IF ~read_ok
         THEN fe' = ReturnNone(fe, "error", page, TRUE)
         ELSE LET insp == inspect_page(page)
                  now == After(fe.now, delay)
                  f == [fe EXCEPT !.seen = Seen(@, insp.api_key_invalid)]
              IN IF insp.final_data # NoneData
                 THEN fe' = Ended(f, "data", insp.final_data, "final", page, TRUE)
                 ELSE IF insp.api_key_invalid /\ ~MayReload(fe.reloads_done)
                 THEN fe' = ReturnNone(f, "api_key_invalid", page, TRUE)
                 ELSE IF insp.api_key_invalid
                 THEN fe' = [f EXCEPT !.pc = "reload", !.now = now,
                                      !.reloads_done = Counted(@),
                                      !.key_reloads = @ + 1,
                                      !.trigger = "key",
                                      !.loading = insp.loading_present]
                 ELSE IF Stuck(insp.loading_present, now - fe.phase_start)
                 THEN IF MayReload(fe.reloads_done)
                      THEN fe' = [f EXCEPT !.pc = "reload", !.now = now,
                                           !.reloads_done = Counted(@),
                                           !.stuck_reloads = @ + 1,
                                           !.trigger = "stuck",
                                           !.loading = insp.loading_present]
                      ELSE fe' = KeepPolling(f, now)
                 ELSE fe' = [f EXCEPT !.pc = "sleep", !.now = now]
  /\ UNCHANGED <<today, subscribers, schedule_runs, task, hist, reply, pg>>

\* Lines 249-251 and 260-262: reload_page returns or raises.
ReloadPage ==
  /\ fe.pc = "reload"
  /\ \E reload \in ReloadOutcomes, delay \in OpDelays :
       fe' = Reloaded(fe, reload, delay)
  /\ UNCHANGED <<today, subscribers, schedule_runs, task, hist, reply, pg>>

\* Line 265: await asyncio.sleep(2)
Sleep ==
  /\ fe.pc = "sleep"
  /\ fe' = [fe EXCEPT !.pc = "poll", !.now = After(@, 2), !.stuck_ignored = FALSE]
  /\ UNCHANGED <<today, subscribers, schedule_runs, task, hist, reply, pg>>

NextFetch ==
  \/ StartPlaywright
  \/ LaunchBrowser
  \/ Navigate
  \/ Poll
  \/ ReloadPage
  \/ Sleep

\* one call of fetch_forecast against a page that shows anything at any time
SpecFetch == InitFetch /\ [][NextFetch]_vars

\* a call under the default configuration
InitFetchDefault ==
  /\ InitFetch
  /\ fe.REQUEST_TIMEOUT_SEC = REQUEST_TIMEOUT_SEC

\* a call under the default configuration when every await of the call
\* returns or raises: the event loop resumes the task
SpecFetchFair == InitFetchDefault /\ [][NextFetch]_vars /\ WF_vars(NextFetch)

\* ------------------------------------------------------------ vocabulary
Range(q) == {q[n] : n \in 1..Len(q)}
Started(e) == task[e].pc # "idle"
Scheduled(e) == Started(e) /\ ~task[e].manual_trigger
Manual(e) == Started(e) /\ task[e].manual_trigger
Done(e) == task[e].pc = "done"
\* the (schedule id, UTC date, slot time) key of an execution
Key(e) == <<task[e].schedule_id, task[e].date_str, task[e].time_str>>
HasKey(e) == task[e].date_str # 0
RowKey(r) == <<r.schedule_id, r.run_date_utc, r.run_time_utc>>
Acquired(e) == hist[e].acq # <<>>
\* the chats a report message of the run was sent to (delivered or not)
ReportTo(e) == {d[1] : d \in hist[e].delivered} \cup hist[e].failed
SentNothing(e) == ReportTo(e) = {} /\ hist[e].notices = {}
Worked(e) == Acquired(e) \/ ReportTo(e) # {}
\* the recipients that received every message of the report without a failure
Full(e) ==
  {c \in Range(task[e].recipients) :
     /\ c \notin hist[e].failed
     /\ \A j \in 1..task[e].messages : <<c, j>> \in hist[e].delivered}
LoopCompleted(e) == task[e].status # ""
Row(e) == schedule_runs[task[e].run_id]
Found(e) == Started(e) /\ task[e].schedule_id \in ScheduleIds
NotFound(e) == Started(e) /\ task[e].schedule_id \notin ScheduleIds
\* the chats the run has to address, from the trigger and from the
\* subscribers that were active when the run resolved its recipients
Addressees(e) ==
  IF task[e].manual_trigger /\ ~task[e].target_all
  THEN IF task[e].admin_user_id # None THEN {task[e].admin_user_id} ELSE {}
  ELSE hist[e].active0
NoRecipients(e) == Found(e) /\ Addressees(e) = {}
ChatIds(subs) == {subs[n].chat_id : n \in 1..Len(subs)}
\* a result as the acceptance predicate is stated: no truthy error, a trimmed
\* summary of MIN_SUMMARY_LEN characters, a list of MIN_SOURCES_LEN sources
ClaimedComplete(item) ==
  /\ item.dict
  /\ item.error.kind = "none"
  /\ StripLen(item.summary) >= MIN_SUMMARY_LEN
  /\ item.sources.list
  /\ item.sources.len >= MIN_SOURCES_LEN
\* the blocks of a page that parse to a final report, to an invalid-key report
FinalBlocks(page) ==
  {n \in 1..Len(page) : IsCandidate(page[n]) /\ is_final_report(page[n].data)}
InvalidBlocks(page) ==
  {n \in 1..Len(page) : IsCandidate(page[n]) /\ is_api_key_invalid_report(page[n].data)}


\* ---------------------------------------------------------------- claims

\* C1: of the scheduled executions that call start_run_record for one
\* (schedule id, UTC date, slot time) key exactly one obtains the RunRecord,
\* which is 'running' while that execution is before its outcome; every other
\* one gets None and then has made no acquisition call, sent no message and
\* written no RunRecord; and no two rows of schedule_runs have the same key.
C1_OneOwnerPerKey ==
  /\ \A m, n \in 1..Len(schedule_runs) :
       m # n => RowKey(schedule_runs[m]) # RowKey(schedule_runs[n])
  /\ \A e \in Execs :
       Scheduled(e) /\ hist[e].lock \in {"owned", "exists"} =>
         Cardinality({f \in Execs : /\ Scheduled(f)
                                    /\ Key(f) = Key(e)
                                    /\ hist[f].lock = "owned"}) = 1
  /\ \A e \in Execs :
       hist[e].lock = "owned" =>
         /\ task[e].run_id \in 1..Len(schedule_runs)
         /\ RowKey(Row(e)) = Key(e)
         /\ task[e].pc = "fetch" => Row(e).status = "running"
  /\ \A e \in Execs :
       hist[e].lock = "exists" =>
         /\ task[e].run_id = None
         /\ Done(e)
         /\ ~Acquired(e)
         /\ SentNothing(e)
         /\ hist[e].writes = 0

C1_Witness ==
  \E e, f \in Execs :
    /\ e # f
    /\ Scheduled(e) /\ Scheduled(f)
    /\ Key(e) = Key(f)
    /\ hist[e].lock = "owned" /\ task[e].pc = "fetch"
    /\ hist[f].lock = "exists"

\* C2: for every key at most one scheduled execution ever calls the
\* acquisition engine or sends a report message.
C2_AtMostOncePerSlot ==
  \A e, f \in Execs :
    (e # f /\ Scheduled(e) /\ Scheduled(f) /\ HasKey(e) /\ Key(e) = Key(f))
      => ~(Worked(e) /\ Worked(f))

C2_Witness ==
  \E e, f \in Execs :
    /\ e # f
    /\ Scheduled(e) /\ Scheduled(f)
    /\ Key(e) = Key(f)
    /\ Done(e) /\ Acquired(e) /\ hist[e].delivered # {}
    /\ Done(f) /\ hist[f].lock = "completed" /\ ~Worked(f)

\* C3: a scheduled execution that finds a RunRecord of its slot, whatever its
\* status, makes no acquisition call, sends no message, writes nothing and
\* ends; the step in which it finds the record leaves schedule_runs as it is.
C3_Skipped(e) ==
  hist[e].pre # "" =>
    /\ hist[e].lock \in {"completed", "exists"}
    /\ Done(e)
    /\ ~Acquired(e)
    /\ SentNothing(e)
    /\ hist[e].writes = 0
    /\ task[e].run_id = None
    /\ RunRows(schedule_runs, task[e].schedule_id, task[e].date_str, task[e].time_str) # {}

C3_ExistingRecordBlocks ==
  /\ [](\A e \in Execs : C3_Skipped(e))
  /\ [][\A e \in Execs :
          (hist[e].pre = "" /\ hist'[e].pre # "") => schedule_runs' = schedule_runs]_vars

C3_Witness ==
  \E e, f \in Execs :
    /\ e # f
    /\ Scheduled(f) /\ Done(f)
    /\ Key(e) = Key(f)
    /\ hist[f].pre = "error"
    /\ hist[e].lock = "owned" /\ Done(e) /\ Row(e).status = "error"

\* C4: a manual execution never creates or updates a RunRecord (no step of
\* it changes schedule_runs, it holds no run id) and it goes on to the
\* acquisition whatever rows exist: once past the validation of a valid
\* schedule it has called the acquisition engine.
C4_ManualState(e) ==
  Manual(e) =>
    /\ task[e].run_id = None
    /\ hist[e].lock \in {"", "manual"}
    /\ hist[e].pre = ""
    /\ hist[e].writes = 0
    /\ (hist[e].lock = "manual" /\ Validate(ScheduleOf(task[e])).error = NoText)
         => (task[e].pc \in {"validate", "fetch"} \/ Acquired(e))

C4_ManualIgnoresRunRecords ==
  /\ [](\A e \in Execs : C4_ManualState(e))
  /\ [][\A e \in Execs :
          (task'[e] # task[e] /\ task'[e].manual_trigger)
            => schedule_runs' = schedule_runs]_vars

C4_Witness ==
  \E e, f \in Execs :
    /\ e # f
    /\ Manual(e) /\ Acquired(e) /\ hist[e].delivered # {}
    /\ Scheduled(f) /\ hist[f].lock = "owned" /\ task[f].pc = "fetch"
    /\ Key(e) = Key(f)
    /\ Row(f).status = "running"


\* the country codes of a schedule that do not normalize
BadCodes(s) == {c \in Range(RawCountries(s)) : normalize_country_code(c) = ""}

C6_Original ==
  \A e \in Execs :
    (Done(e) /\ task[e].validation_error # NoText)
      => /\ task[e].run_id # None
         /\ Row(e).status = "error"
         /\ Row(e).error_text = task[e].validation_error

\* C6 amended: a validation failure (unsupported language or a country code
\* that does not normalize) of a scheduled execution is always recorded: its
\* RunRecord is 'error' with the validation message from the abort on.  A
\* manual execution that fails validation holds no RunRecord and writes none;
\* it only notifies the invoking administrator.
C6_ValidationRecordedWhenScheduled ==
  \A e \in Execs :
    task[e].validation_error # NoText =>
      /\ ~Acquired(e)
      /\ task[e].validation_error[1] \in {"Invalid language", "Invalid country code"}
      /\ IF task[e].manual_trigger
         THEN /\ task[e].run_id = None
              /\ hist[e].writes = 0
              /\ Done(e) => hist[e].notices = {task[e].admin_user_id}
         ELSE /\ task[e].run_id # None
              /\ Row(e).status = "error"
              /\ Row(e).error_text = task[e].validation_error

C6_Witness ==
  \E e, f \in Execs :
    /\ Scheduled(e) /\ Done(e)
    /\ task[e].validation_error = <<"Invalid language", "xx">>
    /\ Row(e).status = "error"
    /\ Row(e).error_text = <<"Invalid language", "xx">>
    /\ Manual(f) /\ Done(f)
    /\ task[f].validation_error # NoText

\* C7: after the acquisition engine returned no data the execution sends no
\* report message, its RunRecord (if it has one) is 'error' with the API
\* error text, the only messages are notices, to the invoker of a manual run
\* or to administrators of a scheduled run, and a notice that fails leaves
\* the recorded status as it is; nothing but the notices follows.
C7_NoDataStops ==
  \A e \in Execs :
    hist[e].fetch = "nodata" =>
      /\ ReportTo(e) = {}
      /\ task[e].pc \in {"notify_failure", "done"}
      /\ task[e].status = ""
      /\ task[e].run_id # None =>
           /\ Row(e).status = "error"
           /\ Row(e).error_text = ApiErrorText
      /\ hist[e].notices \subseteq
           (IF task[e].manual_trigger THEN {task[e].admin_user_id} ELSE Range(ADMIN_IDS))
      /\ Len(hist[e].acq) = 1

C7_Witness ==
  \E e \in Execs :
    /\ Scheduled(e) /\ Done(e)
    /\ hist[e].fetch = "nodata"
    /\ hist[e].notice_failed
    /\ Row(e).status = "error"

\* C8: a report send that raises (blocked, rate limited or any other error)
\* never keeps the later recipients from being served: every recipient
\* before the current one has been sent to, a run whose acquisition gave data
\* ends only with the loop completed, and then every recipient has been sent
\* to; if some recipient was blocked and another received all its messages
\* the final status is 'success', also in the RunRecord.
C8_BroadcastIsolation ==
  \A e \in Execs :
    /\ task[e].pc = "send" =>
         \A n \in 1..(task[e].i - 1) : task[e].recipients[n] \in ReportTo(e)
    /\ (hist[e].fetch = "data" /\ task[e].pc \in {"report_count", "done"}) =>
         /\ LoopCompleted(e)
         /\ Range(task[e].recipients) = ReportTo(e)
    /\ (LoopCompleted(e) /\ hist[e].blocked # {} /\ Full(e) # {}) =>
         /\ task[e].status = "success"
         /\ task[e].run_id # None => Row(e).status = "success"

C8_Witness ==
  \E e \in Execs :
    /\ Scheduled(e) /\ Done(e)
    /\ Len(task[e].recipients) = 2
    /\ task[e].recipients[1] \in hist[e].blocked
    /\ task[e].recipients[2] \in Full(e)
    /\ task[e].messages = NumMsgs
    /\ Row(e).status = "success"

\* C9: once the broadcast loop has completed the final status is 'success'
\* exactly if some recipient received all of its messages and 'partial'
\* otherwise, never 'error', and for a scheduled run it is the status of its
\* RunRecord from then on.
C9_FinalStatus ==
  \A e \in Execs :
    LoopCompleted(e) =>
      /\ task[e].status = (IF Full(e) # {} THEN "success" ELSE "partial")
      /\ task[e].pc \in {"report_count", "done"}
      /\ ~task[e].manual_trigger =>
           /\ task[e].run_id # None
           /\ Row(e).status = task[e].status
           /\ Row(e).error_text = NoText

C9_Witness ==
  \E e \in Execs :
    /\ Scheduled(e) /\ Done(e)
    /\ Len(task[e].recipients) = 2
    /\ LoopCompleted(e)
    /\ hist[e].failed = Range(task[e].recipients)
    /\ hist[e].delivered # {}
    /\ Row(e).status = "partial"

\* C10: the delivered-recipient count is at every moment of the broadcast,
\* and when it is reported, the number of recipients to which every message
\* of the report was sent without a failure.
C10_DeliveredCount ==
  \A e \in Execs :
    hist[e].fetch = "data" => task[e].success_count = Cardinality(Full(e))

C10_Witness ==
  \E e \in Execs :
    /\ Manual(e) /\ Done(e) /\ task[e].target_all
    /\ Len(task[e].recipients) = 2
    /\ task[e].messages = NumMsgs
    /\ task[e].success_count = 1
    /\ <<task[e].recipients[1], NumMsgs - 1>> \in hist[e].delivered
    /\ task[e].recipients[1] \in hist[e].failed
    /\ ~hist[e].notice_failed

\* C11: an execution whose schedule id is not stored, or whose recipient set
\* resolves to nothing, stops at once: it has no RunRecord and no slot key,
\* never reached the deduplication, wrote no run result, made no acquisition
\* call and sent no report message; the only message is the 'not found'
\* notice to the invoker of a manual run.  With this execution alone the table
\* of runs stays empty, so a scheduled trigger without recipients has not
\* claimed its slot.
C11_StopsEarly ==
  \A e \in Execs :
    (NotFound(e) \/ NoRecipients(e)) =>
      /\ task[e].pc \in {"done", "notfound_notice"}
      /\ task[e].run_id = None
      /\ ~HasKey(e)
      /\ hist[e].lock = ""
      /\ hist[e].writes = 0
      /\ ~Acquired(e)
      /\ ReportTo(e) = {}
      /\ hist[e].notices \subseteq {task[e].admin_user_id}
      /\ hist[e].notices # {} => NotFound(e) /\ task[e].manual_trigger
      /\ (\A f \in Execs \ {e} : ~HasKey(f)) => schedule_runs = <<>>

C11_Witness ==
  \E e \in Execs :
    /\ Done(e)
    /\ Scheduled(e)
    /\ NoRecipients(e)
    /\ subscribers # <<>>
    /\ schedule_runs = <<>>

\* C12: the recipients are fixed when they are resolved: the invoking
\* administrator alone for a manual run that is not for all, otherwise the
\* subscribers active at that moment.  No report message goes to any other
\* chat, a completed broadcast has addressed every one of them, and a later
\* subscribe or unsubscribe neither adds nor removes a recipient.
C12_RecipientsFixed ==
  \A e \in Execs :
    Found(e) =>
      /\ ReportTo(e) \subseteq Addressees(e)
      /\ task[e].recipients # <<>> => Range(task[e].recipients) = Addressees(e)
      /\ Len(task[e].recipients) = Cardinality(Range(task[e].recipients))
      /\ LoopCompleted(e) => ReportTo(e) = Addressees(e)

C12_Witness ==
  \E e \in Execs :
    /\ LoopCompleted(e)
    /\ Scheduled(e)
    /\ hist[e].active0 = {1}
    /\ ActiveChats(subscribers) = {2}
    /\ hist[e].blocked = {}
    /\ ReportTo(e) = {1}

\* C13: no operation on table subscribers deletes a row: every step keeps
\* the rows it found, with their chat ids, so the set of stored chat ids never
\* shrinks; an unsubscription, a deactivation by id and a blocked recipient
\* only clear the active flag; and a chat id has at most one row.
C13_NeverDeleted ==
  /\ [][/\ Len(subscribers') >= Len(subscribers)
        /\ \A n \in 1..Len(subscribers) :
             /\ subscribers'[n].chat_id = subscribers[n].chat_id
             /\ subscribers'[n].active \in {0, 1}]_vars
  /\ [](Cardinality(ChatIds(subscribers)) = Len(subscribers))

C13_Witness ==
  /\ Len(subscribers) = 2
  /\ \E e \in Execs : \E c \in hist[e].blocked :
       \E n \in 1..Len(subscribers) :
         subscribers[n].chat_id = c /\ subscribers[n].active = 0
  /\ ActiveChats(subscribers) = {}

\* C14: fetch_forecast returns a report only from a poll cycle that read the
\* page and found there a block with the JSON signature that parses to that
\* report and that is_final_report accepts; every result of a returned report
\* has no truthy error, a trimmed summary of at least 20 characters and a
\* list of at least one source.  Every other end of the call carries no data.
C14_OnlyFinalReports ==
  /\ fe.result = "data" =>
       /\ fe.pc = "done"
       /\ fe.inspected
       /\ \E n \in 1..Len(fe.last_page) :
            /\ fe.last_page[n].head = "{"
            /\ fe.last_page[n].results_key
            /\ fe.last_page[n].parses
            /\ fe.last_page[n].data = fe.data
       /\ fe.data.dict /\ fe.data.list /\ fe.data.results # <<>>
       /\ \A n \in 1..Len(fe.data.results) : ClaimedComplete(fe.data.results[n])
  /\ fe.result # "data" => fe.data = NoneData

C14_Witness ==
  /\ fe.pc = "done"
  /\ fe.result = "data"
  /\ fe.data = FinalTwo
  /\ fe.last_page = <<JsonBlock(Failed), JsonBlock(FinalTwo)>>
  /\ fe.reloads_done = 1

\* C15: every acquisition terminates: whatever the page shows at each poll,
\* a call that has begun to navigate or to poll ends with a report or with no
\* data, and a call that has been made ends.
C15_Terminates ==
  /\ (fe.pc \in {"goto", "poll", "reload", "sleep"})
       ~> (fe.pc = "done" /\ fe.result \in {"data", "none"})
  /\ (fe.pc = "start") ~> (fe.pc = "done")

C15_Witness ==
  /\ fe.pc = "done"
  /\ fe.cause = "timeout"
  /\ fe.reloads_done = MAX_RELOADS
  /\ fe.last_page = <<LoadingBlock>>

\* C16: a poll cycle that begins more than REQUEST_TIMEOUT_SEC + 60 seconds
\* after polling started ends the call with no data, without reading the page
\* and without a reload, whatever the reload budget and whatever the page
\* shows.
C16_GlobalTimeout ==
  [][(fe.pc = "poll" /\ fe.now > fe.REQUEST_TIMEOUT_SEC + 60) =>
       /\ fe'.pc = "done"
       /\ fe'.result = "none"
       /\ fe'.cause = "timeout"
       /\ ~fe'.inspected
       /\ fe'.reloads_done = fe.reloads_done]_vars

C16_Witness ==
  /\ fe.pc = "done"
  /\ fe.cause = "timeout"
  /\ fe.reloads_done < MAX_RELOADS
  /\ fe.last_page = <<JsonBlock(FinalOne)>>
  /\ inspect_page(fe.last_page).final_data = FinalOne

\* C17: a failure of the browser start or launch, of the initial navigation,
\* of a reload whose fallback navigation fails, or of a page inspection never
\* leaves fetch_forecast as an exception: the call returns no data.
C17_NoEscape ==
  (fe.pc = "done" /\ fe.cause \in {"start", "error", "navigation"}) => fe.result = "none"

\* C18 as stated: is_final_report returns true for every report in which every
\* result has a trimmed summary of at least 20 characters, a list of at least
\* one source and no truthy error.
C18_Original ==
  (/\ pg.pc = "report_done"
   /\ pg.data.dict
   /\ pg.data.list
   /\ \A n \in 1..Len(pg.data.results) : ClaimedComplete(pg.data.results[n]))
  => pg.final

\* C18: is_final_report returns true for every report with a non-empty list
\* of results in which every result has a trimmed summary of at least 20
\* characters, a list of at least one source, no truthy error and no
\* articleCount that converts to an integer of 0 or less.
C18_FinalWhenComplete ==
  (/\ pg.pc = "report_done"
   /\ pg.data.dict
   /\ pg.data.list
   /\ pg.data.results # <<>>
   /\ \A n \in 1..Len(pg.data.results) :
        /\ ClaimedComplete(pg.data.results[n])
        /\ ~(/\ pg.data.results[n].metadata.has
             /\ pg.data.results[n].metadata.parses
             /\ pg.data.results[n].metadata.value <= 0))
  => pg.final

C18_Witness ==
  /\ pg.pc = "report_done"
  /\ pg.final
  /\ Len(pg.data.results) >= 2
  /\ pg.data.results[1].metadata = JunkCount
  /\ pg.data.results[2].metadata = Count(5)
  /\ pg.data.results[2].summary.pad > 0

\* C19: add_subscriber returns True exactly when the chat id had no row
\* before the call, and False whenever a row existed, reactivated or not.
C19_TrueOnlyForNewRow ==
  reply.chat_id # None => (reply.is_new <=> ~reply.had_row)

\* C20: when a block of the page is final, inspect_page returns the first
\* final block, whatever precedes it; it reports an invalid key only when no
\* block is final and some block reports it.
C20_FinalFirst ==
  pg.pc = "page_done" =>
    /\ FinalBlocks(pg.page) # {} =>
         /\ pg.insp.final_data =
              pg.page[CHOOSE n \in FinalBlocks(pg.page) :
                        \A m \in FinalBlocks(pg.page) : n <= m].data
         /\ ~pg.insp.api_key_invalid
    /\ pg.insp.api_key_invalid =>
         /\ FinalBlocks(pg.page) = {}
         /\ InvalidBlocks(pg.page) # {}

\* C21: the reload budget is shared: at every moment of a call of
\* fetch_forecast the reloads made for an invalid key and those made for a
\* stuck loading block are together at most MAX_RELOADS, and reloads_done
\* counts them all.
C21_SharedBudget ==
  /\ fe.pc # "off" =>
       /\ fe.key_reloads + fe.stuck_reloads <= MAX_RELOADS
       /\ fe.reloads_done = fe.key_reloads + fe.stuck_reloads

C21_Witness ==
  /\ fe.pc = "sleep"
  /\ fe.stuck_ignored
  /\ fe.key_reloads = 1
  /\ fe.stuck_reloads = 1

\* C22 as stated, its last part: a call in which every inspection of the
\* page reported an invalid key ends with no data after exactly 2 reloads.
C22_Original ==
  (fe.pc = "done" /\ fe.seen = "key") =>
    /\ fe.result = "none"
    /\ fe.key_reloads + fe.stuck_reloads = MAX_RELOADS

\* C22: an inspection that reports an invalid key is followed by a reload
\* when fewer than MAX_RELOADS reloads have been made, whatever triggered
\* them, and ends the call with no data otherwise, never by the sleep of the
\* loop; a call in which every inspection reported an invalid key ends with
\* no data, and after exactly MAX_RELOADS reloads unless the global timeout
\* or a failing page operation ends it first.
C22_KeyInvalid ==
  /\ (fe.pc = "reload" /\ fe.trigger = "key") =>
       fe.key_reloads + fe.stuck_reloads <= MAX_RELOADS
  /\ (/\ fe.pc = "done"
      /\ fe.inspected
      /\ fe.cause # "error"
      /\ inspect_page(fe.last_page).api_key_invalid) =>
       /\ fe.result = "none"
       /\ fe.cause = "api_key_invalid"
       /\ fe.key_reloads + fe.stuck_reloads = MAX_RELOADS
  /\ fe.cause = "api_key_invalid" =>
       /\ fe.pc = "done"
       /\ fe.inspected
       /\ inspect_page(fe.last_page).api_key_invalid
  /\ (fe.pc # "off" /\ fe.seen = "key") => fe.pc # "sleep"
  /\ (fe.pc = "done" /\ fe.seen = "key") =>
       /\ fe.result = "none"
       /\ fe.stuck_reloads = 0
       /\ \/ fe.cause = "api_key_invalid" /\ fe.key_reloads = MAX_RELOADS
          \/ fe.cause \in {"timeout", "error"}

C22_Witness ==
  /\ fe.pc = "done"
  /\ fe.cause = "api_key_invalid"
  /\ fe.stuck_reloads = MAX_RELOADS
  /\ fe.result = "none"

\* C23: once MAX_RELOADS reloads have been made, a loading block never ends
\* the call, however long the phase has lasted: the loop sleeps and polls
\* again, and the call ends only by a final report, by an invalid key seen on
\* the page, by the global timeout or by a failing page operation.
C23_LoadingNeverEnds ==
  /\ (fe.pc # "off" /\ fe.stuck_ignored) =>
       /\ fe.pc = "sleep"
       /\ fe.reloads_done = MAX_RELOADS
       /\ fe.now - fe.phase_start >= LOADING_STUCK_SEC
  /\ (fe.pc = "done" /\ fe.key_reloads + fe.stuck_reloads = MAX_RELOADS) =>
       \/ /\ fe.result = "data"
          /\ fe.inspected
          /\ inspect_page(fe.last_page).final_data = fe.data
       \/ /\ fe.result = "none"
          /\ fe.inspected
          /\ inspect_page(fe.last_page).api_key_invalid
       \/ fe.result = "none" /\ fe.cause = "timeout" /\ ~fe.inspected
       \/ fe.result = "none" /\ fe.cause = "error"

C23_Witness ==
  /\ fe.pc = "sleep"
  /\ fe.stuck_ignored
  /\ fe.reloads_done = MAX_RELOADS
  /\ fe.now - fe.phase_start >= 2 * LOADING_STUCK_SEC

\* C24: the phase timer is reset by every reload, whatever triggered it: it
\* always starts where the last reload ended (where polling started when
\* there was none), and a reload for stuck loading is made only when the
\* inspection saw a loading block and at least LOADING_STUCK_SEC seconds
\* have passed since then.
C24_TimerReset ==
  /\ fe.pc \in {"poll", "sleep", "reload"} => fe.phase_start = fe.reload_end
  /\ (fe.pc = "reload" /\ fe.trigger = "stuck") =>
       /\ fe.loading
       /\ fe.now - fe.reload_end >= LOADING_STUCK_SEC

C24_Witness ==
  /\ fe.pc = "reload"
  /\ fe.trigger = "stuck"
  /\ fe.key_reloads = 1
  /\ fe.reload_end > 0
  /\ fe.now - fe.reload_end >= LOADING_STUCK_SEC

\* C25: a step of an execution changes table subscribers only by setting
\* inactive the recipient whose send has just raised Forbidden, and that
\* recipient is inactive after the step; the flag of every other subscriber
\* (delivered, rate-limited, failed otherwise, or not addressed) is left as
\* it was, and an inactive subscriber becomes active again only by a
\* subscribe command, so the blocked recipient is inactive when the run ends
\* unless it subscribed again meanwhile.
C25_BlockedDeactivated ==
  [][/\ \A e \in Execs :
          task'[e] # task[e] =>
            LET newly == hist'[e].blocked \ hist[e].blocked
            IN /\ \A c \in newly : c \notin ActiveChats(subscribers')
               /\ Len(subscribers') = Len(subscribers)
               /\ \A n \in 1..Len(subscribers) :
                    subscribers'[n] # subscribers[n] =>
                      /\ subscribers[n].chat_id \in newly
                      /\ subscribers'[n] = [subscribers[n] EXCEPT !.active = 0]
     /\ \A c \in Chats :
          (c \in ChatIds(subscribers) /\ c \notin ActiveChats(subscribers)
             /\ c \in ActiveChats(subscribers')) =>
            /\ task' = task
            /\ subscribers' = add_subscriber(subscribers, c)]_vars

C25_Witness ==
  /\ Done(1)
  /\ LoopCompleted(1)
  /\ hist[1].blocked = {1}
  /\ 1 \notin ActiveChats(subscribers)
  /\ 2 \in hist[1].failed
  /\ 2 \in ActiveChats(subscribers)
  /\ \E p \in 1..Len(hist[1].sends) :
       hist[1].sends[p].chat_id = 2 /\ hist[1].sends[p].disp = "rate"

\* C26: the sends of the broadcast loop are made one after the other, each
\* (recipient, message) at most once: they begin with the first message of
\* the first recipient; after a delivered message comes the next message of
\* the same recipient, or, after the last one, the first message of the next
\* recipient; after a send that raised (rate limit included) comes the first
\* message of the next recipient, never the same message or recipient again.
C26_Sequential ==
  \A e \in Execs :
    LET s == hist[e].sends
        r == task[e].recipients
        Pos(c) == CHOOSE n \in 1..Len(r) : r[n] = c
    IN /\ \A p \in 1..Len(s) :
            /\ s[p].chat_id \in Range(r)
            /\ s[p].j \in 1..task[e].messages
            /\ \A q \in 1..Len(s) :
                 (s[q].chat_id = s[p].chat_id /\ s[q].j = s[p].j) => q = p
       /\ s # <<>> => (s[1].chat_id = r[1] /\ s[1].j = 1)
       /\ \A p \in 1..(Len(s) - 1) :
            \/ /\ s[p].disp = "delivered"
               /\ s[p + 1].chat_id = s[p].chat_id
               /\ s[p + 1].j = s[p].j + 1
            \/ /\ s[p].disp = "delivered" => s[p].j = task[e].messages
               /\ Pos(s[p + 1].chat_id) = Pos(s[p].chat_id) + 1
               /\ s[p + 1].j = 1

C26_Witness ==
  /\ Done(1)
  /\ task[1].messages = 2
  /\ hist[1].sends = <<[chat_id |-> 1, j |-> 1, disp |-> "rate"],
                       [chat_id |-> 2, j |-> 1, disp |-> "delivered"],
                       [chat_id |-> 2, j |-> 2, disp |-> "delivered"]>>

\* C27: when an execution has stopped after creating its RunRecord and
\* before writing an outcome, the record keeps status 'running' and no error
\* text in every later state, and every other scheduled execution for the
\* same (schedule, date, slot) makes no acquisition call and sends no report
\* message: it finds the record in the way and returns.
C27_StaleRecordBlocks ==
  \A e \in Execs :
    task[e].pc = "crashed" =>
      /\ task[e].run_id \in 1..Len(schedule_runs)
      /\ RowKey(Row(e)) = Key(e)
      /\ Row(e).status = "running"
      /\ Row(e).error_text = NoText
      /\ \A f \in Execs \ {e} :
           (Scheduled(f) /\ HasKey(f) /\ Key(f) = Key(e)) =>
             /\ ~Acquired(f)
             /\ ReportTo(f) = {}
             /\ task[f].run_id = None
             /\ hist[f].writes = 0
             /\ hist[f].lock \in {"", "exists"}

C27_Witness ==
  /\ task[1].pc = "crashed"
  /\ hist[1].fetch = "data"
  /\ Row(1).status = "running"
  /\ Done(2)
  /\ Scheduled(2)
  /\ Key(2) = Key(1)
  /\ hist[2].lock = "exists"
  /\ hist[2].pre = "running"

\* C28: every acquisition call of execute_schedule is made with the
\* language of the schedule, which the registry supports, and with one
\* country for each code of the schedule, in the same order: the code
\* trimmed and in lower case, 'uk' for the alias 'gb', each a key of the
\* registry other than 'gb'.
C28_AcquisitionParameters ==
  \A e \in Execs :
    \A n \in 1..Len(hist[e].acq) :
      LET call == hist[e].acq[n]
          s == ScheduleOf(task[e])
          code(k) == Strip(Lower(s.countries[k]))
      IN /\ call.language = s.language
         /\ Strip(Lower(call.language)) \in SUPPORTED_LANGUAGES
         /\ Len(call.countries) = Len(s.countries)
         /\ \A k \in 1..Len(s.countries) :
              /\ call.countries[k] = IF code(k) = "gb" THEN "uk" ELSE code(k)
              /\ call.countries[k] \in COUNTRY_REGISTRY \ {"gb"}

C28_Witness ==
  /\ task[1].schedule_id = 1
  /\ ScheduleOf(task[1]).countries = <<"GB", " fr">>
  /\ hist[1].acq = <<[countries |-> <<"uk", "fr">>, language |-> "EN"]>>

\* C29: every RunRecord has status running, success, partial or error; a
\* record is created as 'running'; the status of a record changes only from
\* 'running' to success, partial or error, so at most once, and a record
\* that holds one of these three is never changed by any execution.
C29_StatusLifecycle ==
  /\ [](\A n \in 1..Len(schedule_runs) :
          schedule_runs[n].status \in {"running", "success", "partial", "error"})
  /\ [][/\ Len(schedule_runs') >= Len(schedule_runs)
        /\ \A n \in 1..Len(schedule_runs') :
             IF n > Len(schedule_runs)
             THEN schedule_runs'[n].status = "running"
             ELSE schedule_runs'[n].status # schedule_runs[n].status =>
                    /\ schedule_runs[n].status = "running"
                    /\ schedule_runs'[n].status \in {"success", "partial", "error"}]_vars

C29_Witness ==
  /\ Done(1)
  /\ Done(2)
  /\ task[1].run_id # None
  /\ task[2].run_id # None
  /\ Row(1).status = "partial"
  /\ Row(2).status = "error"
  /\ hist[1].writes = 1
  /\ hist[2].writes = 1

\* C30: every scheduled execution that has created its RunRecord and is not
\* interrupted eventually leaves it with status success, partial or error,
\* and has done so when it returns; the status is 'error' when the
\* validation failed, when the acquisition gave no data, and when the
\* acquisition call, the formatter or the handler of a failed send raised.
C30_EventuallyFinal ==
  /\ [](\A e \in Execs :
          (Done(e) /\ hist[e].lock = "owned") =>
            /\ Row(e).status \in {"success", "partial", "error"}
            /\ hist[e].writes = 1
            /\ (\/ task[e].validation_error # NoText
                \/ hist[e].fetch \in {"nodata", "raise", "format_raise"}
                \/ hist[e].sends # <<>> /\ ~LoopCompleted(e))
                 => Row(e).status = "error"
            /\ LoopCompleted(e) => Row(e).status = task[e].status)
  /\ \A e \in Execs :
       (hist[e].lock = "owned")
         ~> (/\ task[e].run_id # None
             /\ Row(e).status \in {"success", "partial", "error"})

C30_Witness ==
  /\ Done(1)
  /\ hist[1].lock = "owned"
  /\ ~LoopCompleted(1)
  /\ Len(hist[1].sends) = 2
  /\ hist[1].sends[1].disp = "delivered"
  /\ hist[1].sends[2].disp = "blocked"
  /\ hist[1].sends[2].chat_id \in ActiveChats(subscribers)
  /\ Row(1).status = "error"
  /\ Row(1).error_text = ExcText

====
